---- MODULE Spec2Model ----
(***************************************************************************)
(* Model of the short-link backend (src/index.js): an Express application  *)
(* whose handlers issue SQL statements against one table, links, through a *)
(* pg connection pool.  Every pool.query call is one atomic step of the    *)
(* database; a handler that awaits two queries is two steps, and other     *)
(* handlers' statements may run in between.                                *)
(***************************************************************************)
EXTENDS Integers, Sequences, FiniteSets, TLC

\* ---------------------------------------------------------------- bounds
\* number of HTTP requests served in one run (each request uses one slot)
MaxReqs == 3
\* number of requests in one run of the click-counting scenario
MaxClickReqs == 5
\* number of requests in one run of the listing scenario
MaxListReqs == 3
\* largest value of the database clock NOW()
MaxTime == 1

Reqs == 1..MaxReqs
ClickReqs == 1..MaxClickReqs
ListReqs == 1..MaxListReqs

\* ------------------------------------------------------ values and inputs
\* a JavaScript string is a sequence of one-character strings
Undefined == <<"undefined">>
Null == <<>>

Digits == {"0","1","2","3","4","5","6","7","8","9"}
UpperCase == {"A","B","C","D","E","F","G","H","I","J","K","L","M",
              "N","O","P","Q","R","S","T","U","V","W","X","Y","Z"}
LowerCase == {"a","b","c","d","e","f","g","h","i","j","k","l","m",
              "n","o","p","q","r","s","t","u","v","w","x","y","z"}

\* target_url values: two accepted URLs and a rejected one
UrlA == <<"h","t","t","p",":","/","/","a">>
UrlB == <<"h","t","t","p","s",":","/","/","b">>
UrlBad == <<"f","t","p",":","/","/","a">>

\* custom_code values: an accepted code, a non-alphanumeric one, a 9-character one
CodeA1B2C == <<"A","1","B","2","C">>
CodeDash == <<"a","-","b">>
CodeLong == <<"a","b","c","d","e","f","g","h","i">>

\* request bodies of POST /api/links
Body(target_url, custom_code) ==
  [target_url |-> target_url, custom_code |-> custom_code]

Bodies ==
  {Body(UrlBad, Undefined), Body(UrlBad, CodeLong),
   Body(UrlA, Undefined), Body(UrlB, Undefined), Body(UrlA, <<>>),
   Body(UrlA, CodeA1B2C), Body(UrlB, CodeA1B2C),
   Body(UrlA, CodeDash), Body(UrlA, CodeLong)}

\* outcomes of crypto.randomBytes(3)
RandomBytes == {<<161, 178, 192>>, <<210, 253, 48>>}

\* :code path parameters
CodeD2FD3 == <<"D","2","F","D","3">>
PathCodes == {CodeA1B2C, CodeD2FD3}

\* ?search= values of GET /api/links: absent, a term matching a code in another
\* case, a term matching a URL in another case, a LIKE wildcard
SearchTerms == {Undefined, <<"a","1">>, <<"S",":">>, <<"_">>}

\* ---------------------------------------------------------- pure helpers
Min(a, b) == IF a < b THEN a ELSE b

HexDigit(n) ==
  <<"0","1","2","3","4","5","6","7","8","9","a","b","c","d","e","f">>[n + 1]

\* Buffer.toString('hex')
RECURSIVE toHex(_)
toHex(bytes) ==
  IF bytes = <<>> THEN <<>>
  ELSE <<HexDigit(Head(bytes) \div 16), HexDigit(Head(bytes) % 16)>>
       \o toHex(Tail(bytes))

UpperOf(c) ==
  CASE c = "a" -> "A" [] c = "b" -> "B" [] c = "c" -> "C"
    [] c = "d" -> "D" [] c = "e" -> "E" [] c = "f" -> "F"
    [] OTHER -> c

\* String.prototype.toUpperCase on hex digits
toUpperCase(s) == [i \in DOMAIN s |-> UpperOf(s[i])]

\* String.prototype.slice(0, n)
slice(s, n) == SubSeq(s, 1, Min(n, Len(s)))

generateShortCode(bytes) == slice(toUpperCase(toHex(bytes)), 5)

UpperLetters ==
  <<"A","B","C","D","E","F","G","H","I","J","K","L","M",
    "N","O","P","Q","R","S","T","U","V","W","X","Y","Z">>
LowerLetters ==
  <<"a","b","c","d","e","f","g","h","i","j","k","l","m",
    "n","o","p","q","r","s","t","u","v","w","x","y","z">>

LowerOf(c) ==
  IF \E i \in DOMAIN UpperLetters : UpperLetters[i] = c
  THEN LowerLetters[CHOOSE i \in DOMAIN UpperLetters : UpperLetters[i] = c]
  ELSE c

\* String.prototype.toLowerCase and SQL LOWER()
toLowerCase(s) == [i \in DOMAIN s |-> LowerOf(s[i])]

\* SQL: s LIKE p, with % for any run of characters, _ for any one character
\* and backslash escaping the character after it
RECURSIVE Like(_, _)
Like(s, p) ==
  IF p = <<>> THEN s = <<>>
  ELSE IF Head(p) = "%"
       THEN Like(s, Tail(p)) \/ (s # <<>> /\ Like(Tail(s), p))
  ELSE IF Head(p) = "_"
       THEN s # <<>> /\ Like(Tail(s), Tail(p))
  ELSE IF Head(p) = "\\"
       THEN /\ Len(p) >= 2 /\ s # <<>> /\ Head(s) = p[2]
            /\ Like(Tail(s), Tail(Tail(p)))
  ELSE s # <<>> /\ Head(s) = Head(p) /\ Like(Tail(s), Tail(p))

\* line 106: the LIKE pattern built from the search term
SearchPattern(search) == <<"%">> \o toLowerCase(search) \o <<"%">>

\* String.prototype.startsWith
startsWith(s, p) == Len(s) >= Len(p) /\ SubSeq(s, 1, Len(p)) = p

\* JavaScript truthiness of a string-or-undefined value
Truthy(v) == v # Undefined /\ Len(v) > 0

\* line 51: the target_url guard of POST /api/links
InvalidTargetUrl(u) == ~Truthy(u) \/ ~startsWith(u, <<"h","t","t","p">>)

\* /^[a-zA-Z0-9]+$/.test(code)
MatchesAlnum(code) ==
  Len(code) >= 1 /\
  \A i \in DOMAIN code : code[i] \in Digits \cup UpperCase \cup LowerCase

\* the code guard without its length test
InvalidCode_NoLengthTest(code) == ~MatchesAlnum(code)

\* line 56: the code guard of POST /api/links
InvalidCode(code) == Len(code) > 8 \/ ~MatchesAlnum(code)

\* line 55: const code = custom_code || generateShortCode()
ChosenCode(custom_code, bytes) ==
  IF Truthy(custom_code) THEN custom_code ELSE generateShortCode(bytes)

VARIABLES links, nextId, now, req

vars == <<links, nextId, now, req>>

\* ------------------------------------------------------ the links table
\* rows of the links table with the given code
RowsWithCode(code) == {l \in links : l.code = code}

\* a table without the unique key on code
UniqueViolation_NoKey(code) == FALSE

\* the table is keyed by unique code: an INSERT of a code in use is rejected
UniqueViolation(code) == RowsWithCode(code) # {}

\* a uniqueness check that never finds a row
CodeExists_Never(code) == FALSE

\* lines 62-64: SELECT id FROM links WHERE code = $1; rows.length > 0
CodeExists(code) == RowsWithCode(code) # {}

\* column defaults of a new row: clicks 0, last_clicked_at NULL
NewRow(code, target_url) ==
  [id |-> nextId, code |-> code, target_url |-> target_url, clicks |-> 0,
   last_clicked_at |-> Null, created_at |-> now, updated_at |-> now]

IdleReq ==
  [op |-> "none", pc |-> "idle", target_url |-> Undefined,
   custom_code |-> Undefined, code |-> Undefined, currentClicks |-> 0,
   queries |-> 0, status |-> 0, resId |-> 0, resUrl |-> Null, resClicks |-> 0,
   search |-> Undefined, resList |-> <<>>]

Init ==
  /\ links = {}
  /\ nextId = 1
  /\ now = 0
  /\ req = [r \in Reqs |-> IdleReq]

\* a request arrives on slot r: slots are taken in order
Arrives(r) ==
  req[r].pc = "idle" /\ \A q \in DOMAIN req : q < r => req[q].pc # "idle"


\* the database clock advances
Tick ==
  /\ now < MaxTime
  /\ now' = now + 1
  /\ UNCHANGED <<links, nextId, req>>

\* POST /api/links, lines 49-66: validation and the uniqueness SELECT
PostLinksCheck(r, target_url, custom_code, bytes) ==
  /\ Arrives(r)
  /\ LET code == ChosenCode(custom_code, bytes)
         base == [req[r] EXCEPT !.op = "create", !.target_url = target_url,
                                !.custom_code = custom_code]
     IN IF InvalidTargetUrl(target_url)
        THEN req' = [req EXCEPT ![r] = [base EXCEPT !.pc = "done", !.status = 400]]
        ELSE IF InvalidCode(code)
        THEN req' = [req EXCEPT ![r] =
                       [base EXCEPT !.pc = "done", !.status = 400, !.code = code]]
        ELSE IF CodeExists(code)
        THEN req' = [req EXCEPT ![r] =
                       [base EXCEPT !.pc = "done", !.status = 409, !.code = code,
                                    !.queries = 1]]
        ELSE req' = [req EXCEPT ![r] =
                       [base EXCEPT !.pc = "insert", !.code = code, !.queries = 1]]
  /\ UNCHANGED <<links, nextId, now>>

\* POST /api/links, lines 68-86: the INSERT and the 201 or 500 response
PostLinksInsert(r) ==
  /\ req[r].pc = "insert"
  /\ IF UniqueViolation(req[r].code)
     THEN /\ req' = [req EXCEPT ![r] =
                       [@ EXCEPT !.pc = "done", !.status = 500, !.queries = 2]]
          /\ UNCHANGED <<links, nextId>>
     ELSE /\ links' = links \cup {NewRow(req[r].code, req[r].target_url)}
          /\ nextId' = nextId + 1
          /\ req' = [req EXCEPT ![r] =
                       [@ EXCEPT !.pc = "done", !.status = 201, !.queries = 2,
                                 !.resId = nextId, !.resUrl = req[r].target_url,
                                 !.resClicks = 0]]
  /\ UNCHANGED now

\* lines 92-107: the WHERE clause of the list query, none without a search term
ListWhere(l, search) ==
  IF Truthy(search)
  THEN \/ Like(toLowerCase(l.code), SearchPattern(search))
       \/ Like(toLowerCase(l.target_url), SearchPattern(search))
  ELSE TRUE

\* ORDER BY created_at DESC: the arrangements of rows the database may return
OrderedByCreatedDesc(rows) ==
  {q \in [1..Cardinality(rows) -> rows] :
     /\ \A i \in DOMAIN q : \A j \in DOMAIN q : i # j => q[i] # q[j]
     /\ \A i \in DOMAIN q : \A j \in DOMAIN q :
          i < j => q[i].created_at >= q[j].created_at}

\* GET /api/links, lines 90-120: one SELECT, the rows as the response
ListLinks(r, search) ==
  /\ Arrives(r)
  /\ \E q \in OrderedByCreatedDesc({l \in links : ListWhere(l, search)}) :
       req' = [req EXCEPT ![r] =
                 [@ EXCEPT !.op = "list", !.search = search, !.pc = "done",
                           !.queries = 1, !.status = 200, !.resList = q]]
  /\ UNCHANGED <<links, nextId, now>>

\* a stats read that counts itself as a click
GetLink_CountsView(r, code) ==
  /\ Arrives(r)
  /\ links' = {IF l.code = code THEN [l EXCEPT !.clicks = l.clicks + 1] ELSE l :
                l \in links}
  /\ LET base == [req[r] EXCEPT !.op = "get", !.code = code, !.pc = "done",
                                !.queries = 1]
     IN IF RowsWithCode(code) = {}
        THEN req' = [req EXCEPT ![r] = [base EXCEPT !.status = 404]]
        ELSE \E l \in RowsWithCode(code) :
               req' = [req EXCEPT ![r] =
                         [base EXCEPT !.status = 200, !.resUrl = l.target_url,
                                      !.resClicks = l.clicks]]
  /\ UNCHANGED <<nextId, now>>

\* GET /api/links/:code, lines 123-149: one SELECT, 404 or the link's stats
GetLink(r, code) ==
  /\ Arrives(r)
  /\ LET base == [req[r] EXCEPT !.op = "get", !.code = code, !.pc = "done",
                                !.queries = 1]
     IN IF RowsWithCode(code) = {}
        THEN req' = [req EXCEPT ![r] = [base EXCEPT !.status = 404]]
        ELSE \E l \in RowsWithCode(code) :
               req' = [req EXCEPT ![r] =
                         [base EXCEPT !.status = 200, !.resUrl = l.target_url,
                                      !.resClicks = l.clicks]]
  /\ UNCHANGED <<links, nextId, now>>

\* a delete that answers but leaves the row in the table
DeleteFrom_KeepsRow(rows, code) == rows

\* line 156: DELETE FROM links WHERE code = $1
DeleteFrom(rows, code) == {l \in rows : l.code # code}

\* a delete that answers success whether or not a row was deleted
DeleteLink_NoRowCheck(r, code) ==
  /\ Arrives(r)
  /\ links' = DeleteFrom(links, code)
  /\ req' = [req EXCEPT ![r] =
               [@ EXCEPT !.op = "delete", !.code = code, !.pc = "done",
                         !.queries = 1, !.status = 200]]
  /\ UNCHANGED <<nextId, now>>

\* DELETE /api/links/:code, lines 152-166: one DELETE ... RETURNING id;
\* resId is the id the statement returned
DeleteLink(r, code) ==
  /\ Arrives(r)
  /\ links' = DeleteFrom(links, code)
  /\ LET base == [req[r] EXCEPT !.op = "delete", !.code = code, !.pc = "done",
                                !.queries = 1]
     IN IF RowsWithCode(code) = {}
        THEN req' = [req EXCEPT ![r] = [base EXCEPT !.status = 404]]
        ELSE \E l \in RowsWithCode(code) :
               req' = [req EXCEPT ![r] =
                         [base EXCEPT !.status = 200, !.resId = l.id]]
  /\ UNCHANGED <<nextId, now>>

\* a redirect UPDATE that does not stamp last_clicked_at
RedirectSet_NoLastClicked(l) == [l EXCEPT !.updated_at = now]

\* line 175: SET clicks = clicks, last_clicked_at = NOW(), updated_at = NOW()
RedirectSet(l) ==
  [l EXCEPT !.clicks = l.clicks, !.last_clicked_at = <<now>>, !.updated_at = now]

\* GET /:code, lines 169-199: one UPDATE ... RETURNING target_url, 404 or 302;
\* resId is the id of the row the UPDATE changed
Redirect(r, code) ==
  /\ Arrives(r)
  /\ links' = (links \ RowsWithCode(code))
                \cup {RedirectSet(l) : l \in RowsWithCode(code)}
  /\ LET base == [req[r] EXCEPT !.op = "redirect", !.code = code, !.pc = "done",
                                !.queries = 1]
     IN IF RowsWithCode(code) = {}
        THEN req' = [req EXCEPT ![r] = [base EXCEPT !.status = 404]]
        ELSE \E l \in RowsWithCode(code) :
               req' = [req EXCEPT ![r] =
                         [base EXCEPT !.status = 302, !.resUrl = l.target_url,
                                      !.resId = l.id]]
  /\ UNCHANGED <<nextId, now>>

\* POST /api/increment/:code, lines 203-214: SELECT clicks, 404 or remember it
IncrementSelect(r, code) ==
  /\ Arrives(r)
  /\ LET base == [req[r] EXCEPT !.op = "increment", !.code = code, !.queries = 1]
     IN IF RowsWithCode(code) = {}
        THEN req' = [req EXCEPT ![r] = [base EXCEPT !.pc = "done", !.status = 404]]
        ELSE \E l \in RowsWithCode(code) :
               req' = [req EXCEPT ![r] =
                         [base EXCEPT !.pc = "update", !.currentClicks = l.clicks]]
  /\ UNCHANGED <<links, nextId, now>>

\* an increment UPDATE that also overwrites created_at
IncrementSet_StampsCreated(l, clicks) ==
  [l EXCEPT !.clicks = clicks, !.last_clicked_at = <<now>>, !.updated_at = now,
            !.created_at = now]

\* line 219: SET clicks = $1, last_clicked_at = NOW(), updated_at = NOW()
IncrementSet(l, clicks) ==
  [l EXCEPT !.clicks = clicks, !.last_clicked_at = <<now>>, !.updated_at = now]

\* line 223: the value bound to $1
IncrementParam(currentClicks) == currentClicks + 1

\* an UPDATE step that answers success whether or not a row was updated
IncrementUpdate_NoRowCheck(r) ==
  /\ req[r].pc = "update"
  /\ links' = (links \ RowsWithCode(req[r].code))
                \cup {IncrementSet(l, IncrementParam(req[r].currentClicks)) :
                        l \in RowsWithCode(req[r].code)}
  /\ req' = [req EXCEPT ![r] =
               [@ EXCEPT !.pc = "done", !.status = 200, !.queries = 2,
                         !.resClicks = req[r].currentClicks + 1]]
  /\ UNCHANGED <<nextId, now>>

\* POST /api/increment/:code, lines 216-232: UPDATE ... RETURNING id, 404 or 200;
\* resId is the id the statement returned
IncrementUpdate(r) ==
  /\ req[r].pc = "update"
  /\ links' = (links \ RowsWithCode(req[r].code))
                \cup {IncrementSet(l, IncrementParam(req[r].currentClicks)) :
                        l \in RowsWithCode(req[r].code)}
  /\ IF RowsWithCode(req[r].code) = {}
     THEN req' = [req EXCEPT ![r] =
                    [@ EXCEPT !.pc = "done", !.status = 404, !.queries = 2]]
     ELSE \E l \in RowsWithCode(req[r].code) :
            req' = [req EXCEPT ![r] =
                      [@ EXCEPT !.pc = "done", !.status = 200, !.queries = 2,
                                !.resClicks = req[r].currentClicks + 1,
                                !.resId = l.id]]
  /\ UNCHANGED <<nextId, now>>

Next ==
  \/ \E r \in Reqs, body \in Bodies, b \in RandomBytes :
       PostLinksCheck(r, body.target_url, body.custom_code, b)
  \/ \E r \in Reqs : PostLinksInsert(r)
  \/ \E r \in Reqs, c \in PathCodes : GetLink(r, c)
  \/ \E r \in Reqs, c \in PathCodes : DeleteLink(r, c)
  \/ \E r \in Reqs, c \in PathCodes : Redirect(r, c)
  \/ \E r \in Reqs, c \in PathCodes : IncrementSelect(r, c)
  \/ \E r \in Reqs : IncrementUpdate(r)

Spec == Init /\ [][Next]_vars

\* the click-counting scenario: requests for one code, with the clock running
InitClicks ==
  /\ links = {}
  /\ nextId = 1
  /\ now = 0
  /\ req = [r \in ClickReqs |-> IdleReq]

NextClicks ==
  \/ Tick
  \/ \E r \in ClickReqs, b \in RandomBytes :
       PostLinksCheck(r, UrlA, CodeA1B2C, b)
  \/ \E r \in ClickReqs : PostLinksInsert(r)
  \/ \E r \in ClickReqs : DeleteLink(r, CodeA1B2C)
  \/ \E r \in ClickReqs : Redirect(r, CodeA1B2C)
  \/ \E r \in ClickReqs : IncrementSelect(r, CodeA1B2C)
  \/ \E r \in ClickReqs : IncrementUpdate(r)

SpecClicks == InitClicks /\ [][NextClicks]_vars

\* the listing scenario: every handler, two request bodies, the clock running
InitList ==
  /\ links = {}
  /\ nextId = 1
  /\ now = 0
  /\ req = [r \in ListReqs |-> IdleReq]

ListBodies == {Body(UrlA, CodeA1B2C), Body(UrlB, Undefined)}

NextList ==
  \/ Tick
  \/ \E r \in ListReqs, body \in ListBodies, b \in RandomBytes :
       PostLinksCheck(r, body.target_url, body.custom_code, b)
  \/ \E r \in ListReqs : PostLinksInsert(r)
  \/ \E r \in ListReqs, t \in SearchTerms : ListLinks(r, t)
  \/ \E r \in ListReqs, c \in PathCodes : GetLink(r, c)
  \/ \E r \in ListReqs, c \in PathCodes : DeleteLink(r, c)
  \/ \E r \in ListReqs, c \in PathCodes : Redirect(r, c)
  \/ \E r \in ListReqs, c \in PathCodes : IncrementSelect(r, c)
  \/ \E r \in ListReqs : IncrementUpdate(r)

SpecList == InitList /\ [][NextList]_vars

\* ------------------------------------------------------------ properties
\* requests that named the code of row l
Touching(l) == {r \in DOMAIN req : req[r].op # "none" /\ req[r].code = l.code}

\* request r is the successful POST /api/links that inserted row l
Created(r, l) ==
  req[r].op = "create" /\ req[r].status = 201 /\ req[r].resId = l.id

\* the format rule of a short code: 1-8 characters, all alphanumeric
ViolatesFormatRule(code) ==
  \/ Len(code) < 1
  \/ Len(code) > 8
  \/ \E i \in DOMAIN code : code[i] \notin Digits \cup UpperCase \cup LowerCase

\* C1: a successful redirect (302) of a live link with clicks = k leaves that
\* link with clicks = k + 1.
C1_RedirectAddsOneClick ==
  [][\A r \in DOMAIN req :
       (req[r].pc = "idle" /\ req'[r].op = "redirect" /\ req'[r].status = 302)
       => \A l \in RowsWithCode(req'[r].code) :
            \E m \in links' : m.id = l.id /\ m.clicks = l.clicks + 1]_vars

\* C2: when the only requests for a link's code are the create that made it
\* and N redirects, and all have completed, the link's clicks is N.
C2_ConcurrentRedirectsAllCounted ==
  \A l \in links :
    LET redirects == {r \in Touching(l) : req[r].op = "redirect"}
    IN ( /\ redirects # {}
         /\ \A r \in Touching(l) :
              /\ req[r].pc = "done"
              /\ \/ Created(r, l)
                 \/ req[r].op = "redirect" /\ req[r].status = 302 )
       => l.clicks = Cardinality(redirects)

\* C3: when the only requests for a link's code are the create that made it
\* and N increment requests that all returned success, the link's clicks is N.
C3_ConcurrentIncrementsAllCounted ==
  \A l \in links :
    LET increments == {r \in Touching(l) : req[r].op = "increment"}
    IN ( /\ increments # {}
         /\ \A r \in Touching(l) :
              /\ req[r].pc = "done"
              /\ \/ Created(r, l)
                 \/ req[r].op = "increment" /\ req[r].status = 200 )
       => l.clicks = Cardinality(increments)

\* C4: when every request of the run is a create with the same valid
\* custom_code, once all have completed exactly one got 201, every other one
\* got 409, and one row carries the code.
C4_SameCustomCodeOneWinner ==
  \A c \in {body.custom_code : body \in Bodies} :
    LET same == {r \in DOMAIN req :
                   /\ req[r].op = "create"
                   /\ req[r].custom_code = c
                   /\ ~InvalidTargetUrl(req[r].target_url)}
    IN ( /\ c # Undefined /\ ~ViolatesFormatRule(c)
         /\ same # {}
         /\ \A r \in DOMAIN req : req[r].op # "none" => r \in same
         /\ \A r \in same : req[r].pc = "done" )
       => /\ Cardinality({r \in same : req[r].status = 201}) = 1
          /\ \A r \in same : req[r].status \in {201, 409}
          /\ Cardinality(RowsWithCode(c)) = 1

\* C5: no two live rows of the links table have the same code.
C5_CodeUnique ==
  \A l1 \in links : \A l2 \in links : l1.code = l2.code => l1 = l2

\* an INSERT was rejected while another request's row holds the code
C5_Witness ==
  \E r \in DOMAIN req :
    /\ req[r].op = "create" /\ req[r].status = 500
    /\ Cardinality(RowsWithCode(req[r].code)) = 1

\* C6: a create with an accepted target_url and a custom_code that a live row
\* uses when its uniqueness SELECT runs gets 409 after that one query, issues
\* no INSERT, and leaves the table, the original row included, as it was.
C6_ConflictKeepsOriginal ==
  [][\A r \in DOMAIN req :
       ( /\ req[r].pc = "idle" /\ req'[r].op = "create"
         /\ Truthy(req'[r].custom_code)
         /\ ~InvalidTargetUrl(req'[r].target_url)
         /\ RowsWithCode(req'[r].custom_code) # {} )
       => /\ req'[r].status = 409
          /\ req'[r].pc = "done"
          /\ req'[r].queries = 1
          /\ links' = links]_vars

\* a create with a custom code was answered 409 while the row is live
C6_Witness ==
  \E r \in DOMAIN req :
    /\ req[r].op = "create" /\ Truthy(req[r].custom_code)
    /\ req[r].status = 409 /\ req[r].queries = 1
    /\ \E l \in RowsWithCode(req[r].custom_code) : l.id # 0

\* C7 (as claimed): a create whose supplied custom_code is not 1-8
\* alphanumeric characters, the empty string included, gets 400, issues no
\* query and leaves the table unchanged.
C7_BadCustomCodeRejected ==
  [][\A r \in DOMAIN req :
       ( /\ req[r].pc = "idle" /\ req'[r].op = "create"
         /\ req'[r].custom_code # Undefined
         /\ ViolatesFormatRule(req'[r].custom_code) )
       => /\ req'[r].status = 400
          /\ req'[r].pc = "done"
          /\ req'[r].queries = 0
          /\ links' = links]_vars

\* C7 (amended): a create whose custom_code is non-empty and is longer than
\* 8 characters or has a non-alphanumeric character gets 400, issues no query
\* and leaves the table unchanged.
C7_NonEmptyBadCustomCodeRejected ==
  [][\A r \in DOMAIN req :
       ( /\ req[r].pc = "idle" /\ req'[r].op = "create"
         /\ Len(req'[r].custom_code) >= 1
         /\ req'[r].custom_code # Undefined
         /\ ViolatesFormatRule(req'[r].custom_code) )
       => /\ req'[r].status = 400
          /\ req'[r].pc = "done"
          /\ req'[r].queries = 0
          /\ links' = links]_vars

\* a create with an accepted target_url was refused for its custom code: one
\* for a code that is too long, one for a non-alphanumeric code
C7_Witness ==
  /\ \E r \in DOMAIN req :
       /\ req[r].op = "create" /\ req[r].status = 400
       /\ ~InvalidTargetUrl(req[r].target_url)
       /\ Len(req[r].custom_code) > 8
  /\ \E r \in DOMAIN req :
       /\ req[r].op = "create" /\ req[r].status = 400
       /\ ~InvalidTargetUrl(req[r].target_url)
       /\ req[r].custom_code # Undefined
       /\ Len(req[r].custom_code) \in 1..8
       /\ ViolatesFormatRule(req[r].custom_code)

\* C8: a completed create with an accepted target_url and no custom_code got
\* 201 with a code of 1-8 alphanumeric characters, whose row had that
\* target_url.
C8_GeneratedCreateSucceeds ==
  \A r \in DOMAIN req :
    ( /\ req[r].op = "create" /\ req[r].pc = "done"
      /\ req[r].custom_code = Undefined
      /\ ~InvalidTargetUrl(req[r].target_url) )
    => /\ req[r].status = 201
       /\ ~ViolatesFormatRule(req[r].code)
       /\ req[r].resUrl = req[r].target_url

\* C9: a create without custom_code whose generated candidate is in use does
\* not end in 409 after its first and only uniqueness query.
C9_CollisionIsRetried ==
  \A r \in DOMAIN req :
    ( /\ req[r].op = "create" /\ req[r].pc = "done"
      /\ req[r].custom_code = Undefined
      /\ ~InvalidTargetUrl(req[r].target_url)
      /\ req[r].status # 201 )
    => req[r].status # 409 /\ req[r].queries > 1

\* C10: no step lowers the clicks of a row that is live before and after it.
C10_ClicksNeverDecrease ==
  [][\A l \in links : \A m \in links' : m.id = l.id => m.clicks >= l.clicks]_vars

\* C11: once a delete of code X has succeeded, a create with custom_code = X
\* that arrives after it, with no other create inserting X after the delete,
\* gets 201 and a row whose id is newer than the deleted row's id.
C11_DeletedCodeReusable ==
  \A d \in DOMAIN req : \A c \in DOMAIN req :
    ( /\ d < c
      /\ req[d].op = "delete" /\ req[d].status = 200
      /\ req[c].op = "create" /\ req[c].pc = "done"
      /\ req[c].custom_code = req[d].code
      /\ ~InvalidTargetUrl(req[c].target_url)
      /\ \A o \in DOMAIN req \ {c} :
           ~( /\ req[o].op = "create" /\ req[o].code = req[d].code
              /\ req[o].status = 201 /\ req[o].resId > req[d].resId ) )
    => /\ req[c].status = 201
       /\ req[c].resId > req[d].resId

\* a code was created, deleted and created again under a new id
C11_Witness ==
  \E d \in DOMAIN req : \E c \in DOMAIN req :
    /\ d < c
    /\ req[d].op = "delete" /\ req[d].status = 200
    /\ req[c].op = "create" /\ req[c].custom_code = req[d].code
    /\ req[c].status = 201 /\ req[c].resId > req[d].resId

\* C12: when a get, delete, redirect or increment statement runs while no
\* live row has the requested code, the request is answered 404 and the table
\* is left exactly as it was.
C12_MissingCodeIsNotFound ==
  [][\A r \in DOMAIN req :
       ( /\ req'[r] # req[r]
         /\ req'[r].op \in {"get", "delete", "redirect", "increment"}
         /\ RowsWithCode(req'[r].code) = {} )
       => /\ req'[r].status = 404
          /\ req'[r].pc = "done"
          /\ links' = links]_vars

\* a delete, a redirect and an increment were each answered 404
C12_Witness ==
  /\ \E r \in DOMAIN req : req[r].op = "delete" /\ req[r].status = 404
  /\ \E r \in DOMAIN req : req[r].op = "redirect" /\ req[r].status = 404
  /\ \E r \in DOMAIN req : req[r].op = "increment" /\ req[r].status = 404

\* request r takes a step that answers it
Answers(r) == req[r].pc # "done" /\ req'[r].pc = "done"

\* request r is answered as a successful redirect
RedirectSucceeds(r) ==
  Answers(r) /\ req'[r].op = "redirect" /\ req'[r].status = 302

\* request r is answered as a successful increment
IncrementSucceeds(r) ==
  Answers(r) /\ req'[r].op = "increment" /\ req'[r].status = 200

\* row m of the next state is row l of this state
SameRow(l, m) == m.id = l.id

\* C13 (as claimed): a new row has last_clicked_at null; only a successful
\* redirect of its code makes it non-null; after a successful redirect it is
\* non-null and stays so.
C13_OnlyRedirectSetsLastClicked ==
  [][ /\ \A m \in links' :
           (\A l \in links : ~SameRow(l, m)) => m.last_clicked_at = Null
      /\ \A l \in links : \A m \in links' :
           SameRow(l, m) =>
             /\ l.last_clicked_at # Null => m.last_clicked_at # Null
             /\ (l.last_clicked_at = Null /\ m.last_clicked_at # Null)
                => \E r \in DOMAIN req :
                     RedirectSucceeds(r) /\ req'[r].code = l.code
      /\ \A r \in DOMAIN req :
           RedirectSucceeds(r)
           => \E m \in links' :
                m.id = req'[r].resId /\ m.last_clicked_at # Null ]_vars

\* C13 (amended): a new row has last_clicked_at null; only a successful
\* redirect or a successful increment of its code makes it non-null; after
\* either it is non-null and stays so.
C13_OnlyClicksSetLastClicked ==
  [][ /\ \A m \in links' :
           (\A l \in links : ~SameRow(l, m)) => m.last_clicked_at = Null
      /\ \A l \in links : \A m \in links' :
           SameRow(l, m) =>
             /\ l.last_clicked_at # Null => m.last_clicked_at # Null
             /\ (l.last_clicked_at = Null /\ m.last_clicked_at # Null)
                => \E r \in DOMAIN req :
                     /\ RedirectSucceeds(r) \/ IncrementSucceeds(r)
                     /\ req'[r].code = l.code
      /\ \A r \in DOMAIN req :
           (RedirectSucceeds(r) \/ IncrementSucceeds(r))
           => \E m \in links' :
                m.id = req'[r].resId /\ m.last_clicked_at # Null ]_vars

\* a live row was redirected and carries a last_clicked_at, while another
\* live row, never clicked, has none
C13_Witness ==
  /\ \E l \in links : \E r \in DOMAIN req :
       /\ req[r].op = "redirect" /\ req[r].status = 302 /\ req[r].resId = l.id
       /\ l.last_clicked_at # Null
  /\ \E l \in links : l.last_clicked_at = Null

\* C14: no step changes the id, code, target_url or created_at of a row; a
\* redirect or increment step changes no row but the one with the requested
\* code, and adds or removes none.
C14_ClickChangesOnlyClickFields ==
  [][ /\ \A l \in links : \A m \in links' :
           SameRow(l, m) =>
             /\ m.code = l.code
             /\ m.target_url = l.target_url
             /\ m.created_at = l.created_at
      /\ \A r \in DOMAIN req :
           ( /\ req'[r] # req[r]
             /\ req'[r].op \in {"redirect", "increment"} )
           => /\ {m.id : m \in links'} = {l.id : l \in links}
              /\ \A l \in links : l.code # req'[r].code => l \in links' ]_vars

\* a row was updated by a successful increment after the time of its creation
\* while another row is live
C14_Witness ==
  \E l \in links : \E k \in links : \E r \in DOMAIN req :
    /\ k.id # l.id
    /\ req[r].op = "increment" /\ req[r].status = 200 /\ req[r].resId = l.id
    /\ l.updated_at > l.created_at

\* t occurs in s as a run of consecutive characters
Contains(s, t) ==
  \E i \in 0..(Len(s) - Len(t)) : SubSeq(s, i + 1, i + Len(t)) = t

\* row l has the search term in its code or target URL, whatever the case
MatchesSearch(l, search) ==
  \/ Contains(toLowerCase(l.code), toLowerCase(search))
  \/ Contains(toLowerCase(l.target_url), toLowerCase(search))

\* C15: a list response holds each live row once, newest created_at first;
\* with a search term it holds exactly the rows whose code or target URL
\* contains the term, compared without case.
C15_ListIsSubstringSearch ==
  [][\A r \in DOMAIN req :
       (Answers(r) /\ req'[r].op = "list")
       => LET q == req'[r].resList
              term == req'[r].search
          IN /\ {q[i] : i \in DOMAIN q}
                  = {l \in links : term = Undefined \/ MatchesSearch(l, term)}
             /\ \A i \in DOMAIN q : \A j \in DOMAIN q :
                  /\ i # j => q[i] # q[j]
                  /\ i < j => q[i].created_at >= q[j].created_at]_vars

\* C18: a get or list step leaves the links table exactly as it was.
C18_ReadsLeaveTableUnchanged ==
  [][\A r \in DOMAIN req :
       (req'[r] # req[r] /\ req'[r].op \in {"get", "list"})
       => links' = links]_vars

\* a get found its row and a list returned it, and the row is still live
C18_Witness ==
  /\ \E r \in DOMAIN req :
       /\ req[r].op = "get" /\ req[r].status = 200
       /\ RowsWithCode(req[r].code) # {}
  /\ \E r \in DOMAIN req :
       /\ req[r].op = "list"
       /\ \E i \in DOMAIN req[r].resList : req[r].resList[i] \in links

\* completed requests that recorded a click against row l
ClicksOn(l) ==
  {r \in DOMAIN req :
     /\ req[r].pc = "done" /\ req[r].resId = l.id
     /\ \/ req[r].op = "redirect" /\ req[r].status = 302
        \/ req[r].op = "increment" /\ req[r].status = 200}

\* C16: the clicks of a live row never exceeds the number of successful
\* redirects and increments completed against that row since its creation.
C16_ClicksBoundedByOwnClicks ==
  \A l \in links : l.clicks <= Cardinality(ClicksOn(l))

\* C17: when an increment's UPDATE runs after a delete of its code that
\* arrived after its SELECT has succeeded, and no row has the code, the
\* increment is answered 404 and no row with the code exists afterwards.
C17_IncrementAfterDeleteIsNotFound ==
  [][\A r \in DOMAIN req :
       ( /\ req[r].pc = "update" /\ req'[r].pc = "done"
         /\ RowsWithCode(req[r].code) = {}
         /\ \E d \in DOMAIN req :
              /\ d > r
              /\ req[d].op = "delete" /\ req[d].status = 200
              /\ req[d].code = req[r].code )
       => /\ req'[r].status = 404
          /\ {l \in links' : l.code = req[r].code} = {}
          /\ links' = links]_vars

\* an increment read a row, the row was deleted, and its UPDATE was answered 404
C17_Witness ==
  \E r \in DOMAIN req : \E d \in DOMAIN req :
    /\ d > r
    /\ req[r].op = "increment" /\ req[r].queries = 2 /\ req[r].status = 404
    /\ req[d].op = "delete" /\ req[d].status = 200 /\ req[d].code = req[r].code
    /\ RowsWithCode(req[r].code) = {}
====
